---- MODULE Spec2Model ----
(***************************************************************************)
(* Model of scripts/prepare_data.py: the synthetic 2m-temperature grid     *)
(* generator generate_synthetic(month) over the module-level axes LATS and *)
(* LONS, and main(), which writes one JSON document per date.              *)
(*                                                                         *)
(* Numbers.  Coordinates are integers in tenths of a degree (lat 22.5 is   *)
(* 225).  A temperature local of the loop body (base, seasonal, zonal,     *)
(* temp) is an exact fixed-point number <<h, l>> that stands for           *)
(* (h * B + l) / (180 * B * B) Kelvin, with 0 <= l < B; two limbs keep     *)
(* every intermediate product inside 32-bit integers.  sin and cos of the  *)
(* angles the grid produces (multiples of 5 degrees) come from a table of  *)
(* sines scaled by B * B = 10^8.  A returned cell (a float rounded to one  *)
(* decimal) is an integer number of tenths of a Kelvin (288.0 K is 2880).  *)
(***************************************************************************)
EXTENDS Integers, Sequences, FiniteSets, TLC

VARIABLES lats, lons, pc, caller, month, season, i, j, loc, row, values,
          use_real, k, files, todo, out, wloc

vars == <<lats, lons, pc, caller, month, season, i, j, loc, row, values,
          use_real, k, files, todo, out, wloc>>

\* ------------------------------------------------------------------ bounds
\* generate_synthetic is called with the months 1 - MonthPad .. 12 + MonthPad
MonthPad == 1

Months == (1 - MonthPad) .. (12 + MonthPad)

\* the data-parallel runs compute ParCells consecutive cells of the grid, which
\* start at every ParStride-th cell
ParCells == 3

ParStride == 149

Workers == {"w1", "w2"}

\* ------------------------------------------------------- fixed-point numbers
B == 100 * 100

Norm(h, l) == <<h + (l \div B), l % B>>

FxAdd(x, y) == Norm(x[1] + y[1], x[2] + y[2])

FxNeg(x) == Norm(-x[1], -x[2])

FxLess(x, y) == x[1] < y[1] \/ (x[1] = y[1] /\ x[2] < y[2])

FxMin(x, y) == IF FxLess(y, x) THEN y ELSE x

FxMax(x, y) == IF FxLess(x, y) THEN y ELSE x

\* n Kelvin
Kelvin(n) == <<n * 180 * B, 0>>

\* n * (v / 10^8) Kelvin-units, for a table value v: n * v as limbs
FxTimes(n, v) == Norm(n * (v \div B), n * (v % B))

\* x * 1.4 = x * 7 / 5
FxTimes14(x) == Norm((7 * x[1]) \div 5, (((7 * x[1]) % 5) * B + 7 * x[2]) \div 5)

FxSign(x) == IF x[1] < 0 THEN -1 ELSE IF x[1] = 0 /\ x[2] = 0 THEN 0 ELSE 1

\* ------------------------------------------------------------- trigonometry
\* sin(0), sin(5), ..., sin(90) degrees, times 10^8, rounded to nearest
SinQuarter == <<0, 8715574, 17364818, 25881905, 34202014, 42261826, 50000000,
    57357644, 64278761, 70710678, 76604444, 81915204, 86602540, 90630779,
    93969262, 96592583, 98480775, 99619470, 100000000>>

\* math.sin(math.radians(d)) for d a multiple of 5 degrees, times 10^8
SinDeg(d) == LET a == d % 360
             IN IF a <= 90 THEN SinQuarter[(a \div 5) + 1]
                ELSE IF a <= 180 THEN SinQuarter[((180 - a) \div 5) + 1]
                ELSE IF a <= 270 THEN -SinQuarter[((a - 180) \div 5) + 1]
                ELSE -SinQuarter[((360 - a) \div 5) + 1]

\* math.cos(math.radians(d)), times 10^8
CosDeg(d) == SinDeg(d + 90)

\* ---------------------------------------------------------------- the grid
NLat == 73

NLon == 144

\* LATS with range(1, 74): the axis starts one step below the pole
LATSShifted == [n \in 1..NLat |-> 900 - n * 25]

\* LATS = [90.0 - i * 2.5 for i in range(73)], in tenths of a degree
LATS == [n \in 1..NLat |-> 900 - (n - 1) * 25]

\* LONS = [-180.0 + i * 2.5 for i in range(144)], in tenths of a degree
LONS == [n \in 1..NLon |-> -1800 + (n - 1) * 25]

Abs(x) == IF x < 0 THEN -x ELSE x

\* ------------------------------------------------- generate_synthetic, body
\* season with a step of 15 degrees a month
SeasonHalfStep(m) == CosDeg((m - 7) * 15)

\* season = math.cos(math.radians((month - 7) * 30)), times 10^8
Season(m) == CosDeg((m - 7) * 30)

\* base = 288.0 - 40.0 * abs(lat) / 90.0
Base(lat) == FxAdd(Kelvin(288), <<-(8 * Abs(lat) * B), 0>>)

\* seasonal = season * 15.0 * (abs(lat) / 90.0); negated when lat < 0
Seasonal(seas, lat) == LET s == FxTimes(3 * Abs(lat), seas)
                         IN IF lat < 0 THEN FxNeg(s) ELSE s

\* is_land set once before the loops instead of in every iteration
LandKeep(prev) == prev

\* is_land = False, at the top of every iteration
LandReset(prev) == FALSE

\* Eurasia with 0 <= lon
EurasiaClosed(lat, lon) == 0 <= lon /\ lon < 1400 /\ lat > 100

Eurasia(lat, lon) == 0 < lon /\ lon < 1400 /\ lat > 100

Africa(lat, lon) == -200 < lon /\ lon < 500 /\ -350 < lat /\ lat < 350

NorthAmerica(lat, lon) == -1300 < lon /\ lon < -600 /\ lat > 150

SouthAmerica(lat, lon) == -800 < lon /\ lon < -350 /\ -550 < lat /\ lat < 100

Australia(lat, lon) == 1150 < lon /\ lon < 1550 /\ -400 < lat /\ lat < -100

LandBand(lat) == -300 < lat /\ lat < 700

\* the five "if ...: is_land = True" under "if -30 < lat < 70"
IsLand(start, lat, lon) == IF LandBand(lat)
                               /\ (Eurasia(lat, lon) \/ Africa(lat, lon)
                                   \/ NorthAmerica(lat, lon) \/ SouthAmerica(lat, lon)
                                   \/ Australia(lat, lon))
                           THEN TRUE ELSE start

\* zonal with an amplitude of 30.0
ZonalTenfold(lon) == FxTimes(5400, SinDeg((2 * lon) \div 10))

\* zonal with cos for sin
ZonalCos(lon) == FxTimes(540, CosDeg((2 * lon) \div 10))

\* zonal = 3.0 * math.sin(math.radians(lon * 2))
Zonal(lon) == FxTimes(540, SinDeg((2 * lon) \div 10))

\* the clamp with its limits in degrees Celsius
ClampCelsius(t) == FxMax(Kelvin(-63), FxMin(Kelvin(47), t))

\* temp = max(210.0, min(320.0, temp))
Clamp(t) == FxMax(Kelvin(210), FxMin(Kelvin(320), t))

\* round(temp, 1), as a number of tenths: nearest, ties to even
Round1(t) == LET q == t[1] \div (18 * B)
                 r == t[1] % (18 * B)
                 up == r > 9 * B \/ (r = 9 * B /\ t[2] > 0)
                       \/ (r = 9 * B /\ t[2] = 0 /\ q % 2 = 1)
             IN IF up THEN q + 1 ELSE q

\* One iteration of the inner loop: the function's locals after the body has
\* run for (lat, lon), given the locals the previous iteration left behind.
Body(prev, seas, lat, lon) ==
    LET land == IsLand(LandReset(prev.is_land), lat, lon)
        base0 == Base(lat)
        seasonal0 == Seasonal(seas, lat)
        seasonal == IF land THEN FxTimes14(seasonal0) ELSE seasonal0
        base == IF land THEN FxAdd(base0, FxNeg(Kelvin(2))) ELSE base0
        zonal == Zonal(lon)
        raw == FxAdd(FxAdd(base, seasonal), zonal)
    IN [base |-> base, seasonal |-> seasonal, is_land |-> land, zonal |-> zonal,
        raw |-> raw, temp |-> Clamp(raw)]

NoLocals == [base |-> <<0, 0>>, seasonal |-> <<0, 0>>, is_land |-> FALSE,
             zonal |-> <<0, 0>>, raw |-> <<0, 0>>, temp |-> <<0, 0>>]

\* row set once before the loops instead of in every iteration
RowKeep(prev) == prev

\* row = [], at the top of every iteration of the outer loop
RowReset(prev) == <<>>

\* Iterations a..b of "for lon in LONS" at latitude lat; st = [loc, row] holds
\* the locals and the row built so far.  The range is split in halves so that
\* the evaluation depth stays logarithmic; the iterations still run in order
\* (the test on the first half's row, which is never empty, makes the first
\* half be evaluated before the second).
\* row.append(round(temp, 1)) after the body has left the locals n
Emit(st, n) == [loc |-> n, row |-> Append(st.row, Round1(n.temp))]

RECURSIVE InnerLoop(_, _, _, _, _, _)
InnerLoop(st, seas, lat, lns, a, b) ==
    IF a > b THEN st
    ELSE IF a = b
    THEN Emit(st, Body(st.loc, seas, lat, lns[a]))
    ELSE LET mid == (a + b) \div 2
             first == InnerLoop(st, seas, lat, lns, a, mid)
         IN IF first.row # <<>>
            THEN InnerLoop(first, seas, lat, lns, mid + 1, b)
            ELSE first

\* ------------------------------------------------------------------- main
\* dates = [(2024, 1, 1), (2024, 7, 1)]
Dates == <<[year |-> 2024, month |-> 1, day |-> 1], [year |-> 2024, month |-> 7, day |-> 1]>>

\* f"era5_t2m_{year}{month:02d}{day:02d}.json", by its digits
Filename(d) == d.year * 10000 + d.month * 100 + d.day

\* the document main serialises for a synthetic field
Document(d, vals) ==
    [variable |-> "2m_temperature", units |-> "K", date |-> <<d.year, d.month, d.day>>,
     time |-> "12:00", grid |-> "2.5deg", lats |-> lats, lons |-> lons,
     values |-> vals, source |-> "synthetic"]

\* the document download_real writes: its axes and values come from the
\* downloaded NetCDF file, which is outside the program
RealDocument(d) ==
    [variable |-> "2m_temperature", units |-> "K", date |-> <<d.year, d.month, d.day>>,
     time |-> "12:00", grid |-> "2.5deg", source |-> "cds"]

\* ------------------------------------------------------------ initial state
Idle ==
    /\ lats = LATS
    /\ lons = LONS
    /\ caller = "none"
    /\ row = <<>>
    /\ values = <<>>
    /\ use_real = FALSE
    /\ k = 0
    /\ files = <<>>
    /\ todo = {}
    /\ out = <<>>
    /\ wloc = [w \in Workers |-> NoLocals]

Init ==
    /\ Idle
    /\ pc = "ready"
    /\ month = 0
    /\ season = 0
    /\ i = 0
    /\ j = 0
    /\ loc = NoLocals

\* ------------------------------------------------ generate_synthetic(month)
\* the axis sorted in place at entry (LATS.sort()): ascending instead
EnterSorting(m, who) ==
    /\ pc' = "loop"
    /\ caller' = who
    /\ month' = m
    /\ season' = Season(m)
    /\ values' = <<>>
    /\ row' = <<>>
    /\ loc' = NoLocals
    /\ i' = 0
    /\ j' = 0
    /\ lats' = [n \in 1..Len(lats) |-> lats[Len(lats) + 1 - n]]
    /\ lons' = lons

\* entry of the function: a fresh frame, season computed, values = []; the
\* module-level LATS and LONS are read, never written
Enter(m, who) ==
    /\ pc' = "loop"
    /\ caller' = who
    /\ month' = m
    /\ season' = Season(m)
    /\ values' = <<>>
    /\ row' = <<>>
    /\ loc' = NoLocals
    /\ i' = 0
    /\ j' = 0
    /\ lats' = lats
    /\ lons' = lons

\* a caller other than main calls generate_synthetic(m)
Call(m) ==
    /\ pc = "ready"
    /\ Enter(m, "env")
    /\ UNCHANGED <<use_real, k, files, todo, out, wloc>>

\* one iteration of "for lat in LATS": the whole inner loop and values.append(row)
Row ==
    /\ pc = "loop"
    /\ i < Len(lats)
    /\ \E st \in {InnerLoop([loc |-> loc, row |-> RowReset(row)], season,
                           lats[i + 1], lons, 1, Len(lons))} :
          /\ loc' = st.loc
          /\ row' = st.row
          /\ values' = Append(values, st.row)
    /\ i' = i + 1
    /\ j' = Len(lons)
    /\ UNCHANGED <<lats, lons, pc, caller, month, season, use_real, k, files, todo, out, wloc>>

\* return values: the frame and its locals are gone
Return ==
    /\ pc = "loop"
    /\ i = Len(lats)
    /\ pc' = "returned"
    /\ loc' = NoLocals
    /\ row' = <<>>
    /\ i' = 0
    /\ j' = 0
    /\ UNCHANGED <<lats, lons, caller, month, season, values, use_real, k, files, todo, out, wloc>>

\* the caller has the field and may call again
Resume ==
    /\ pc = "returned"
    /\ caller = "env"
    /\ pc' = "ready"
    /\ UNCHANGED <<lats, lons, caller, month, season, i, j, loc, row, values,
                   use_real, k, files, todo, out, wloc>>

\* -------------------------------------------------------------------- main()
\* main() starts; use_real = "--real" in sys.argv
MainStart(real) ==
    /\ pc = "ready"
    /\ pc' = "main"
    /\ use_real' = real
    /\ k' = 1
    /\ UNCHANGED <<lats, lons, caller, month, season, i, j, loc, row, values,
                   files, todo, out, wloc>>

\* the next date of the loop, synthetic branch: values = generate_synthetic(month)
MainGenerate ==
    /\ pc = "main"
    /\ k <= Len(Dates)
    /\ ~use_real
    /\ Enter(Dates[k].month, "main")
    /\ UNCHANGED <<use_real, k, files, todo, out, wloc>>

\* json.dump(data, f) of the synthetic branch
MainWrite ==
    /\ pc = "returned"
    /\ caller = "main"
    /\ files' = (Filename(Dates[k]) :> Document(Dates[k], values)) @@ files
    /\ k' = k + 1
    /\ pc' = "main"
    /\ UNCHANGED <<lats, lons, caller, month, season, i, j, loc, row, values,
                   use_real, todo, out, wloc>>

\* the next date of the loop, --real branch: download_real writes the file, or
\* leaves through sys.exit(1) when its imports fail
MainDownload(imported) ==
    /\ pc = "main"
    /\ k <= Len(Dates)
    /\ use_real
    /\ IF imported
       THEN /\ files' = (Filename(Dates[k]) :> RealDocument(Dates[k])) @@ files
            /\ k' = k + 1
            /\ pc' = "main"
       ELSE /\ pc' = "exit"
            /\ UNCHANGED <<files, k>>
    /\ UNCHANGED <<lats, lons, caller, month, season, i, j, loc, row, values,
                   use_real, todo, out, wloc>>

\* the loop over dates is exhausted: main returns
MainDone ==
    /\ pc = "main"
    /\ k > Len(Dates)
    /\ pc' = "ready"
    /\ UNCHANGED <<lats, lons, caller, month, season, i, j, loc, row, values,
                   use_real, k, files, todo, out, wloc>>

Next ==
    \/ \E m \in Months : Call(m)
    \/ Row
    \/ Return
    \/ Resume
    \/ \E real \in BOOLEAN : MainStart(real)
    \/ MainGenerate
    \/ MainWrite
    \/ \E imported \in BOOLEAN : MainDownload(imported)
    \/ MainDone

Spec == Init /\ [][Next]_vars

\* -------------------------------------------------- the loop body, cell by cell
\* The body of the inner loop as a function of its inputs: any month, any cell
\* (i, j) of the grid, and either value of is_land left by an earlier iteration.
InitCell ==
    /\ Idle
    /\ pc = "cell"
    /\ month \in Months
    /\ season = Season(month)
    /\ i \in 1..NLat
    /\ j \in 1..NLon
    /\ loc \in {[NoLocals EXCEPT !.is_land = b] : b \in BOOLEAN}

CellStep ==
    /\ pc = "cell"
    /\ loc' = Body(loc, season, lats[i], lons[j])
    /\ pc' = "cell_done"
    /\ UNCHANGED <<lats, lons, caller, month, season, i, j, row, values,
                   use_real, k, files, todo, out, wloc>>

NextCell == CellStep

SpecCell == InitCell /\ [][NextCell]_vars

\* ------------------------------------------------ the loop body, data-parallel
\* Cells are numbered row by row from 0.
CellLat(c) == lats[(c \div Len(lons)) + 1]

CellLon(c) == lons[(c % Len(lons)) + 1]

Anchors == {a \in 0..(NLat * NLon - ParCells) : a % ParStride = 0}

\* Workers, each running the loop body in a frame of its own, share out
\* the cells a .. a + ParCells - 1 in any order.
InitPar ==
    /\ lats = LATS
    /\ lons = LONS
    /\ caller = "none"
    /\ row = <<>>
    /\ values = <<>>
    /\ use_real = FALSE
    /\ k = 0
    /\ files = <<>>
    /\ pc = "par"
    /\ month \in Months
    /\ season = Season(month)
    /\ i = 0
    /\ j = 0
    /\ loc = NoLocals
    /\ \E a \in Anchors : todo = a..(a + ParCells - 1)
    /\ out = <<>>
    /\ wloc = [w \in Workers |-> NoLocals]

Work(w, c) ==
    /\ pc = "par"
    /\ c \in todo
    /\ \E n \in {Body(wloc[w], season, CellLat(c), CellLon(c))} :
          /\ wloc' = [wloc EXCEPT ![w] = n]
          /\ out' = (c :> Round1(n.temp)) @@ out
    /\ todo' = todo \ {c}
    /\ UNCHANGED <<lats, lons, pc, caller, month, season, i, j, loc, row, values,
                   use_real, k, files>>

NextPar == \E w \in Workers : \E c \in todo : Work(w, c)

SpecPar == InitPar /\ [][NextPar]_vars

\* ======================================================================
\* Reference values the properties compare the program against
\* ======================================================================
\* the value of one cell as a function of (month, lat, lon) alone
CellValue(m, lat, lon) == Round1(Body(NoLocals, Season(m), lat, lon).temp)

\* the field whose every cell is CellValue, on the axes as first built
SyntheticField(m) == [r \in 1..NLat |-> [c \in 1..NLon |-> CellValue(m, LATS[r], LONS[c])]]

\* the serial loop over the cells c .. hi, in order, in one frame
RECURSIVE SerialCells(_, _, _, _)
SerialCells(st, seas, c, hi) ==
    IF c > hi THEN st
    ELSE LET n == Body(st.loc, seas, CellLat(c), CellLon(c))
         IN SerialCells([loc |-> n, out |-> (c :> Round1(n.temp)) @@ st.out], seas, c + 1, hi)

Window == todo \cup DOMAIN out

WindowLo == CHOOSE c \in Window : \A d \in Window : c <= d

WindowHi == CHOOSE c \in Window : \A d \in Window : d <= c

SyntheticDocs == {f \in DOMAIN files : files[f].source = "synthetic"}

\* ======================================================================
\* Properties
\* ======================================================================

\* C1: a call of generate_synthetic with a month outside 1..12 (month 0 or 13)
\* fails with InvalidInput and produces no field: it never returns one.
InvalidMonthRejected == ~(pc = "returned" /\ month \notin 1..12)

\* C2 as stated: for month 7 the cell at lat 0.0, lon 0.0 is exactly 288.0 K,
\* is not land, and its seasonal and zonal terms are both 0.
EquatorCellIs288 ==
    (pc = "cell_done" /\ month = 7 /\ lats[i] = 0 /\ lons[j] = 0)
        => /\ Round1(loc.temp) = 2880
           /\ ~loc.is_land
           /\ loc.seasonal = <<0, 0>>
           /\ loc.zonal = <<0, 0>>

\* C2 as amended: for month 7 the cell at lat 0.0, lon 0.0 is exactly 286.0 K:
\* the cell is land (it lies inside the Africa rectangle), its seasonal and
\* zonal terms are both 0, and the value is the equatorial base 288.0 less the
\* land adjustment of 2.
EquatorCellIs286 ==
    (pc = "cell_done" /\ month = 7 /\ lats[i] = 0 /\ lons[j] = 0)
        => /\ Round1(loc.temp) = 2860
           /\ loc.is_land
           /\ -200 < lons[j] /\ lons[j] < 500 /\ -350 < lats[i] /\ lats[i] < 350
           /\ loc.seasonal = <<0, 0>>
           /\ loc.zonal = <<0, 0>>
           /\ loc.base = Kelvin(286)

EquatorCellComputed == pc = "cell_done" /\ month = 7 /\ lats[i] = 0 /\ lons[j] = 0

\* C3: for every month in 1..12, every value of the field that
\* generate_synthetic builds and returns lies in [210.0, 320.0].
RangeInvariant ==
    (pc \in {"loop", "returned"} /\ month \in 1..12)
        => \A r \in 1..Len(values) : \A c \in 1..Len(values[r]) :
              2100 <= values[r][c] /\ values[r][c] <= 3200

FieldReturned == pc = "returned" /\ month \in 1..12 /\ Len(values) = 73

\* C4: the field generate_synthetic returns has len(LATS) rows of len(LONS)
\* entries, and every document main writes from it has len(values) = len(lats)
\* and len(values[i]) = len(lons): 73 x 144.
ShapeInvariant ==
    /\ pc = "loop"
          => /\ Len(values) = i
             /\ \A r \in 1..Len(values) : Len(values[r]) = Len(lons)
    /\ pc = "returned"
          => /\ Len(values) = Len(lats)
             /\ \A r \in 1..Len(values) : Len(values[r]) = Len(lons)
    /\ \A f \in SyntheticDocs :
          /\ Len(files[f].values) = Len(files[f].lats)
          /\ \A r \in 1..Len(files[f].values) : Len(files[f].values[r]) = Len(files[f].lons)
          /\ Len(files[f].values) = 73
          /\ Len(files[f].lons) = 144

BothDocumentsWritten ==
    /\ pc = "ready"
    /\ SyntheticDocs = {20240101, 20240701}

\* C5: generate_synthetic is deterministic and stateless: the field a call
\* returns is a function of its month alone, whatever calls came before (it
\* equals the field main wrote earlier for the same month), and LATS and LONS
\* are never changed.
Deterministic ==
    /\ lats = LATS
    /\ lons = LONS
    /\ pc = "returned"
          => /\ values = SyntheticField(month)
             /\ \A f \in SyntheticDocs :
                   files[f].date[2] = month => values = files[f].values

SameMonthCalledAgain ==
    /\ pc = "returned"
    /\ caller = "env"
    /\ \E f \in SyntheticDocs : files[f].date[2] = month

\* C6: LATS is strictly descending from +90 to -90 in uniform 2.5 degree
\* steps (73 values), LONS strictly ascending from -180 to 177.5 in uniform
\* 2.5 degree steps (144 values), neither with a duplicate.
AxesWellFormed ==
    /\ Len(lats) = 73
    /\ lats[1] = 900
    /\ lats[73] = -900
    /\ \A n \in 1..72 : lats[n] - lats[n + 1] = 25
    /\ Cardinality({lats[n] : n \in 1..73}) = 73
    /\ Len(lons) = 144
    /\ lons[1] = -1800
    /\ lons[144] = 1775
    /\ \A n \in 1..143 : lons[n + 1] - lons[n] = 25
    /\ Cardinality({lons[n] : n \in 1..144}) = 144

AxesUsed == pc = "loop" /\ i = 73 /\ j = 144

\* C7: at every cell of non-zero latitude the seasonal component for month 1
\* and the one for month 7 have opposite signs and equal magnitude, in either
\* hemisphere, land or not.
SeasonalOpposite ==
    (pc = "cell_done" /\ month \in {1, 7} /\ lats[i] # 0)
        => LET other == Body(NoLocals, Season(8 - month), lats[i], lons[j]).seasonal
           IN /\ FxSign(loc.seasonal) # 0
              /\ FxSign(other) = -FxSign(loc.seasonal)
              /\ other = FxNeg(loc.seasonal)

SouthernLandInJanuary ==
    pc = "cell_done" /\ month = 1 /\ lats[i] < 0 /\ loc.is_land /\ FxSign(loc.seasonal) = 1

\* C8: a cell's value depends on (month, lat, lon) of that cell only: computed
\* in any order, by several workers, every cell gets the value the serial loop
\* over the same cells gives it.
OrderIndependent ==
    (pc = "par" /\ out # <<>>)
        => LET serial == SerialCells([loc |-> NoLocals, out |-> <<>>], season,
                                     WindowLo, WindowHi).out
           IN \A c \in DOMAIN out :
                 /\ out[c] = serial[c]
                 /\ out[c] = CellValue(month, CellLat(c), CellLon(c))

\* the workers finished out of the serial order, on cells of both kinds
InterleavedRunDone ==
    /\ pc = "par"
    /\ todo = {}
    /\ out # <<>>
    /\ wloc["w1"] = Body(NoLocals, season, CellLat(WindowHi), CellLon(WindowHi))
    /\ wloc["w2"] = Body(NoLocals, season, CellLat(WindowLo), CellLon(WindowLo))
    /\ wloc["w2"].is_land
    /\ ~wloc["w1"].is_land

ClampIsIdentity ==
    pc = "cell_done"
        => /\ loc.temp = loc.raw
           /\ ~FxLess(loc.raw, Kelvin(210))
           /\ ~FxLess(Kelvin(320), loc.raw)

ColdestCell == pc = "cell_done" /\ month \in 1..12 /\ Round1(loc.raw) = 2300

====
